---- MODULE Spec2Model ----
(***************************************************************************)
(* Model of FClassDesc (Plugins/UnLua/Source/UnLua/Private/               *)
(* ReflectionUtils/ClassDesc.cpp): the per-type reflection descriptor of  *)
(* UnLua, its field registration, lazy load/unload, inheritance chain and *)
(* reference count, run against a small host type system.                 *)
(***************************************************************************)
EXTENDS Integers, Sequences, FiniteSets, TLC

VARIABLES
    registered,     \* FClassRegistry: the types that own a descriptor
    ClassName,      \* FClassDesc::ClassName, per descriptor
    Struct,         \* FClassDesc::Struct, per descriptor (NULL = unloaded)
    SuperClasses,   \* FClassDesc::SuperClasses, per descriptor
    Fields,         \* FClassDesc::Fields, per descriptor: name -> FFieldDesc
    Properties,     \* FClassDesc::Properties, per descriptor
    Functions,      \* FClassDesc::Functions, per descriptor
    RefCount,       \* FClassDesc::RefCount, per descriptor
    avail,          \* host: where each type object currently lives
    halted,         \* a check() failed: the process has stopped
    last            \* the last call made on a descriptor and what it returned

vars == <<registered, ClassName, Struct, SuperClasses, Fields, Properties,
          Functions, RefCount, avail, halted, last>>

(***************************************************************************)
(* Bounds of the model                                                     *)
(***************************************************************************)
MaxRef == 1

(***************************************************************************)
(* The host type system (UStruct / UClass / UScriptStruct objects)         *)
(***************************************************************************)
NULL == "NULL"

\* a class chain Hero -> Actor -> Object
ClassWorld == {"tObject", "tActor", "tHero"}
\* a user-defined (non-native) struct and a native struct
StructWorld == {"tStat", "tVector"}
\* a native class without ancestors
FlatWorld == {"tItem"}
\* a native class Door -> Object implementing the interface Usable
IfaceWorld == {"tDoor", "tUsable", "tObject"}

Types == ClassWorld \cup StructWorld \cup FlatWorld \cup IfaceWorld

IsClassType(t) == t \in ClassWorld \cup FlatWorld \cup IfaceWorld

IsScriptStructType(t) == t \in StructWorld

HasInterfaceFlag(t) == t = "tUsable"

IsNative(t) == t \notin {"tHero", "tStat"}

GetInheritanceSuper(t) ==
    CASE t = "tHero" -> "tActor"
      [] t = "tActor" -> "tObject"
      [] t = "tDoor" -> "tObject"
      [] OTHER -> NULL

Interfaces(t) == IF t = "tDoor" THEN <<"tUsable">> ELSE <<>>

\* the name FindObject / LoadObject resolve the type by
ObjectName(t) ==
    CASE t = "tObject" -> "Object"
      [] t = "tActor" -> "Actor"
      [] t = "tHero" -> "/Game/Hero.Hero_C"
      [] t = "tUsable" -> "Usable"
      [] t = "tStat" -> "/Game/Stat.Stat"
      [] t = "tVector" -> "Vector"
      [] t = "tItem" -> "Item"
      [] t = "tDoor" -> "Door"

GetPrefixCPP(t) ==
    CASE t = "tActor" -> "A"
      [] IsScriptStructType(t) -> "F"
      [] OTHER -> "U"

\* UnLua::LowLevel::GetMetatableName: the registry name of a type
GetMetatableName(t) ==
    IF IsNative(t) THEN GetPrefixCPP(t) \o ObjectName(t) ELSE ObjectName(t)

Guid == "01234567890123456789012345678901"

HealthProp == "Health_" \o Guid \o "_3"
HealthProp2 == "Health_7_" \o Guid
ManaProp == "Mana_" \o Guid
ShortProp == "Ab_" \o Guid

\* the properties a type declares itself, in declaration order
DirectProperties(t) ==
    CASE t = "tObject" -> <<[name |-> "Tag", deprecated |-> FALSE]>>
      [] t = "tActor" -> <<[name |-> "Tick", deprecated |-> FALSE]>>
      [] t = "tStat" -> <<[name |-> "Health_0_" \o Guid, deprecated |-> TRUE],
                          [name |-> HealthProp, deprecated |-> FALSE],
                          [name |-> HealthProp2, deprecated |-> FALSE],
                          [name |-> ManaProp, deprecated |-> FALSE],
                          [name |-> ShortProp, deprecated |-> FALSE]>>
      [] t = "tVector" -> <<[name |-> HealthProp, deprecated |-> FALSE]>>
      [] t = "tItem" -> <<[name |-> "Id", deprecated |-> FALSE],
                          [name |-> "Count", deprecated |-> FALSE],
                          [name |-> "Owner", deprecated |-> FALSE]>>
      [] OTHER -> <<>>

\* the functions a class declares itself
DirectFunctions(t) ==
    CASE t = "tObject" -> {"Tick"}
      [] t = "tUsable" -> {"Use"}
      [] t = "tItem" -> {"Use"}
      [] OTHER -> {}

\* the entries of a class's function map whose UFunction object is owned by
\* something that is no UStruct (here a package)
DetachedFunctions(t) == IF t = "tDoor" THEN {"Open"} ELSE {}

\* no property / no function
NoMember == [outer |-> NULL, name |-> ""]

\* no field descriptor (nullptr)
NoField == [QueryClass |-> NULL, OuterClass |-> NULL, FieldIndex |-> 0]

(***************************************************************************)
(* Host reflection queries                                                 *)
(***************************************************************************)
RECURSIVE FindPropertyByName(_, _)
\* UStruct::FindPropertyByName: the type's own properties first, then the
\* properties of its super types
\* a property lookup that does not look at the ancestors
FindPropertyByName_DirectOnly(t, n) ==
    IF t = NULL THEN NoMember
    ELSE IF \E i \in DOMAIN DirectProperties(t) : DirectProperties(t)[i].name = n
         THEN [outer |-> t, name |-> n]
         ELSE NoMember

FindPropertyByName(t, n) ==
    IF t = NULL THEN NoMember
    ELSE IF \E i \in DOMAIN DirectProperties(t) : DirectProperties(t)[i].name = n
         THEN [outer |-> t, name |-> n]
         ELSE FindPropertyByName(GetInheritanceSuper(t), n)

RECURSIVE FindInInterfaces(_, _, _)
RECURSIVE FindFunctionByName(_, _)
\* the first interface of the list, from position i on, that has the function
FindInInterfaces(ifs, i, n) ==
    IF i > Len(ifs) THEN NoMember
    ELSE IF FindFunctionByName(ifs[i], n) # NoMember
         THEN FindFunctionByName(ifs[i], n)
         ELSE FindInInterfaces(ifs, i + 1, n)

\* UClass::FindFunctionByName (IncludeSuper): the class's own function map,
\* then its interfaces, then its super class
FindFunctionByName(t, n) ==
    IF t = NULL THEN NoMember
    ELSE IF n \in DirectFunctions(t) THEN [outer |-> t, name |-> n]
    ELSE IF n \in DetachedFunctions(t) THEN [outer |-> "Package", name |-> n]
    ELSE IF FindInInterfaces(Interfaces(t), 1, n) # NoMember
         THEN FindInInterfaces(Interfaces(t), 1, n)
         ELSE FindFunctionByName(GetInheritanceSuper(t), n)

\* GetPropertyOuter(Property) / Function->GetOuter(), cast to UStruct
OuterStructOf(m) == IF m.outer \in Types THEN m.outer ELSE NULL

(***************************************************************************)
(* FString helpers                                                         *)
(***************************************************************************)
INDEX_NONE == -1

\* FString::LeftChop: the string without its last k characters
LeftChop(str, k) == IF k >= Len(str) THEN "" ELSE SubSeq(str, 1, Len(str) - k)

\* FString::RightChop: the string without its first k characters
RightChop(str, k) == IF k >= Len(str) THEN "" ELSE SubSeq(str, k + 1, Len(str))

\* FString::Mid(Start, Count), 0-based
Mid(str, start, count) ==
    LET last_ == IF start + count > Len(str) THEN Len(str) ELSE start + count
    IN IF count <= 0 \/ start >= Len(str) THEN "" ELSE SubSeq(str, start + 1, last_)

\* FString::FindLastChar: 0-based index of the last occurrence, or INDEX_NONE
FindLastChar(str, c) ==
    LET hits == {i \in 1..Len(str) : SubSeq(str, i, i) = c}
    IN IF hits = {} THEN INDEX_NONE
       ELSE (CHOOSE i \in hits : \A j \in hits : j <= i) - 1

GuidStrLen == 32

MinimalPostfixlen == GuidStrLen + 3

\* a recovery that also treats a name of exactly MinimalPostfixlen characters
RecoverDisplayName_Inclusive(name) ==
    IF Len(name) >= MinimalPostfixlen
    THEN LET chopped == LeftChop(name, GuidStrLen + 1)
             FirstCharToRemove == FindLastChar(chopped, "_")
         IN IF FirstCharToRemove # INDEX_NONE
            THEN Mid(chopped, 0, FirstCharToRemove)
            ELSE chopped
    ELSE name

\* the display name RegisterField recovers from a struct property's name
RecoverDisplayName(name) ==
    IF Len(name) > MinimalPostfixlen
    THEN LET chopped == LeftChop(name, GuidStrLen + 1)
             FirstCharToRemove == FindLastChar(chopped, "_")
         IN IF FirstCharToRemove # INDEX_NONE
            THEN Mid(chopped, 0, FirstCharToRemove)
            ELSE chopped
    ELSE name

RECURSIVE FindByDisplayName(_, _, _)
\* the TFieldIterator loop (ExcludeSuper, ExcludeDeprecated): the first direct,
\* non-deprecated property from position i on whose display name is n
FindByDisplayName(t, i, n) ==
    IF i > Len(DirectProperties(t)) THEN NoMember
    ELSE IF /\ ~DirectProperties(t)[i].deprecated
            /\ RecoverDisplayName(DirectProperties(t)[i].name) = n
         THEN [outer |-> t, name |-> DirectProperties(t)[i].name]
         ELSE FindByDisplayName(t, i + 1, n)

(***************************************************************************)
(* The program state as one record, so that nested calls can be composed   *)
(***************************************************************************)
Cur ==
    [registered |-> registered, ClassName |-> ClassName, Struct |-> Struct,
     SuperClasses |-> SuperClasses, Fields |-> Fields,
     Properties |-> Properties, Functions |-> Functions,
     RefCount |-> RefCount, avail |-> avail, halted |-> halted]

\* an empty TMap<FName, FFieldDesc*>
EmptyFields == [n \in {} |-> NoField]

\* the flags the constructor caches from InStruct (the descriptor is
\* identified by the type it was constructed for)
bIsScriptStruct(d) == IsScriptStructType(d)

bIsClass(d) == IsClassType(d)

bIsInterface(d) == bIsClass(d) /\ HasInterfaceFlag(d)

\* GDefaultParamCollection: class name -> functions with default parameters
GDefaultParamCollection(name) == IF name = "UObject" THEN {"Tick"} ELSE {}

\* FunctionCollection->Functions.Find(FieldName)
DefaultParams(s, d, n) ==
    bIsClass(d) /\ n \in GDefaultParamCollection(s.ClassName[d])

(***************************************************************************)
(* FClassDesc::Load and FClassDesc::UnLoad                                 *)
(***************************************************************************)
\* the name Load looks the type up by
\* a name derivation that does not know the actor prefix
LoadName_NoA(name) ==
    IF SubSeq(name, 1, 1) \in {"U", "F"} THEN RightChop(name, 1) ELSE name

LoadName(name) ==
    IF SubSeq(name, 1, 1) \in {"U", "A", "F"} THEN RightChop(name, 1) ELSE name

\* FindObject<UStruct>(ANY_PACKAGE, Name): a type object in memory
FindObject(s, name) ==
    LET hit == {t \in Types : s.avail[t] = "resident" /\ ObjectName(t) = name}
    IN IF hit = {} THEN NULL ELSE CHOOSE t \in hit : TRUE

\* LoadObject<UStruct>(nullptr, Name): a type object read from storage
LoadObject(s, name) ==
    LET hit == {t \in Types : s.avail[t] = "stored" /\ ObjectName(t) = name}
    IN IF hit = {} THEN NULL ELSE CHOOSE t \in hit : TRUE

\* a Load without the final check: it returns with a null Struct
Load_NoCheck(s, d) ==
    IF s.Struct[d] # NULL THEN s
    ELSE LET Name == LoadName(s.ClassName[d])
             found == FindObject(s, Name)
             loaded == LoadObject(s, Name)
         IN IF found # NULL THEN [s EXCEPT !.Struct[d] = found]
            ELSE IF loaded # NULL
                 THEN [s EXCEPT !.Struct[d] = loaded, !.avail[loaded] = "resident"]
                 ELSE s

Load(s, d) ==
    IF s.Struct[d] # NULL THEN s
    ELSE LET Name == LoadName(s.ClassName[d])
             found == FindObject(s, Name)
             loaded == LoadObject(s, Name)
         IN IF found # NULL THEN [s EXCEPT !.Struct[d] = found]
            ELSE IF loaded # NULL
                 THEN [s EXCEPT !.Struct[d] = loaded, !.avail[loaded] = "resident"]
                 ELSE [s EXCEPT !.halted = TRUE]    \* check(Struct) fails

\* an UnLoad that drops the type handle but keeps the field table
UnLoad_KeepsFields(s, d) ==
    IF s.Struct[d] = NULL THEN s
    ELSE [s EXCEPT !.Properties[d] = <<>>,
                   !.Functions[d] = <<>>,
                   !.Struct[d] = NULL]

\* an UnLoad that also forgets the inheritance chain
UnLoad_DropsSupers(s, d) ==
    IF s.Struct[d] = NULL THEN s
    ELSE [s EXCEPT !.Fields[d] = EmptyFields,
                   !.Properties[d] = <<>>,
                   !.Functions[d] = <<>>,
                   !.SuperClasses[d] = <<>>,
                   !.Struct[d] = NULL]

\* an UnLoad that releases the field table but keeps the property array
UnLoad_KeepsProperties(s, d) ==
    IF s.Struct[d] = NULL THEN s
    ELSE [s EXCEPT !.Fields[d] = EmptyFields,
                   !.Functions[d] = <<>>,
                   !.Struct[d] = NULL]

UnLoad(s, d) ==
    IF s.Struct[d] = NULL THEN s
    ELSE [s EXCEPT !.Fields[d] = EmptyFields,
                   !.Properties[d] = <<>>,
                   !.Functions[d] = <<>>,
                   !.Struct[d] = NULL]

(***************************************************************************)
(* FClassDesc::FClassDesc and the registry's resolve-or-create             *)
(***************************************************************************)
RECURSIVE RegisterReflectedType(_, _)
RECURSIVE RegisterInterfaces(_, _, _)
RECURSIVE RegisterSupers(_, _, _)
RECURSIVE Construct(_, _, _)

\* the loop over Class->Interfaces, from position i on
\* a constructor that does not look at the interfaces
RegisterInterfaces_Skip(s, ifs, i) == s

RegisterInterfaces(s, ifs, i) ==
    IF i > Len(ifs) THEN s
    ELSE RegisterInterfaces(RegisterReflectedType(s, ifs[i]), ifs, i + 1)

\* the loop over the inheritance chain, starting at SuperStruct
RegisterSupers(s, d, SuperStruct) ==
    IF SuperStruct = NULL THEN s
    ELSE LET s1 == RegisterReflectedType(s, SuperStruct)
         IN RegisterSupers([s1 EXCEPT !.SuperClasses[d] = Append(@, SuperStruct)],
                           d, GetInheritanceSuper(SuperStruct))

Construct(s, InStruct, InName) ==
    LET s0 == [s EXCEPT !.Struct[InStruct] = InStruct,
                        !.ClassName[InStruct] = InName,
                        !.RefCount[InStruct] = 0,
                        !.SuperClasses[InStruct] = <<>>,
                        !.Fields[InStruct] = EmptyFields,
                        !.Properties[InStruct] = <<>>,
                        !.Functions[InStruct] = <<>>]
        s1 == IF bIsClass(InStruct)
              THEN RegisterInterfaces(s0, Interfaces(InStruct), 1)
              ELSE s0
    IN RegisterSupers(s1, InStruct, GetInheritanceSuper(InStruct))

\* UnLua::FClassRegistry::RegisterReflectedType: the descriptor of a type,
\* created on first use
RegisterReflectedType(s, t) ==
    IF t \in s.registered THEN s
    ELSE LET s1 == Construct(s, t, GetMetatableName(t))
         IN [s1 EXCEPT !.registered = @ \cup {t}]

(***************************************************************************)
(* FClassDesc::FindField, RegisterField, GetInheritanceChain               *)
(***************************************************************************)
\* the result of a call: the state it leaves, the field descriptor it
\* returns, and the number of delegations to another descriptor it made
Result(s, ret, hops) == [s |-> s, ret |-> ret, hops |-> hops]

\* a property index that is not made 1-based
PropertyIndex_ZeroBased(pos) == pos

\* FieldIndex of a property appended at 0-based position pos
PropertyIndex(pos) == pos + 1

\* FieldIndex of a function appended at 0-based position pos
FunctionIndex(pos) == -(pos + 1)

\* a RegisterField that does not consult Fields first
IsCached_Never(s, d, FieldName) == FALSE

\* Fields.Find(FieldName) hits
IsCached(s, d, FieldName) == FieldName \in DOMAIN s.Fields[d]

\* a RegisterField that never redirects to the declaring type
IsInherited_Never(OuterStruct, St) == FALSE

\* the member found is declared by another type than the descriptor's own
IsInherited(OuterStruct, St) == OuterStruct # St

\* a placement that stores a member without a struct owner locally
Placement_NullLocal(OuterStruct, St) ==
    IF OuterStruct = NULL THEN "local"
    ELSE IF IsInherited(OuterStruct, St) THEN "inherited"
    ELSE "local"

\* where RegisterField puts a member it found: nowhere when its owner is no
\* UStruct, on the owner's descriptor when it is inherited, else on this one
Placement(OuterStruct, St) ==
    IF OuterStruct = NULL THEN "none"
    ELSE IF IsInherited(OuterStruct, St) THEN "inherited"
    ELSE "local"

\* a redirect that goes to the immediate super type
RedirectTarget_Super(OuterStruct, St) == GetInheritanceSuper(St)

\* the type whose descriptor an inherited member is delegated to
RedirectTarget(OuterStruct, St) == OuterStruct

\* a field descriptor that records the creating descriptor as query class
NewFieldDesc_QueryThis(QueryClass, d, FieldIndex) ==
    [QueryClass |-> d, OuterClass |-> d, FieldIndex |-> FieldIndex]

\* new FFieldDesc with QueryClass, OuterClass = this and its index
NewFieldDesc(QueryClass, d, FieldIndex) ==
    [QueryClass |-> QueryClass, OuterClass |-> d, FieldIndex |-> FieldIndex]

\* an Add that puts the new descriptor in front
AddDesc_Front(array, desc) == <<desc>> \o array

\* TArray::Add: the new descriptor goes to the end
AddDesc(array, desc) == Append(array, desc)

\* the new field descriptor and its property / function descriptor
CreateField(s, d, FieldName, QueryClass, Property, Function) ==
    IF Property # NoMember
    THEN LET FieldDesc == NewFieldDesc(QueryClass, d,
                                       PropertyIndex(Len(s.Properties[d])))
         IN Result([s EXCEPT !.Fields[d] = (FieldName :> FieldDesc) @@ @,
                             !.Properties[d] = AddDesc(@, [Property |-> Property])],
                   FieldDesc, 0)
    ELSE LET FieldDesc == NewFieldDesc(QueryClass, d,
                                       FunctionIndex(Len(s.Functions[d])))
         IN Result([s EXCEPT !.Fields[d] = (FieldName :> FieldDesc) @@ @,
                             !.Functions[d] = AddDesc(@,
                                 [Function |-> Function,
                                  DefaultParams |-> DefaultParams(s, d, FieldName)])],
                   FieldDesc, 0)

\* a fallback that also runs for native structs
UsesDisplayNames_AnyStruct(s, d) == bIsScriptStruct(d)

\* the struct fallback of RegisterField runs for this descriptor
UsesDisplayNames(s, d) == bIsScriptStruct(d) /\ ~IsNative(s.Struct[d])

RECURSIVE RegisterField(_, _, _, _)
RegisterField(s, d, FieldName, QueryClass) ==
    LET s1 == Load(s, d)
        St == s1.Struct[d]
        Found == FindPropertyByName(St, FieldName)
        Function == IF Found = NoMember /\ bIsClass(d)
                    THEN FindFunctionByName(St, FieldName)
                    ELSE NoMember
        Property == IF Found = NoMember /\ Function = NoMember
                       /\ UsesDisplayNames(s1, d)
                    THEN FindByDisplayName(St, 1, FieldName)
                    ELSE Found
        bValid == Property # NoMember \/ Function # NoMember
        OuterStruct == OuterStructOf(IF Property # NoMember THEN Property
                                     ELSE Function)
    IN IF s1.halted THEN Result(s1, NoField, 0)
       ELSE IF IsCached(s1, d, FieldName)
            THEN Result(s1, s1.Fields[d][FieldName], 0)
       ELSE IF ~bValid THEN Result(s1, NoField, 0)
       ELSE IF Placement(OuterStruct, St) = "none" THEN Result(s1, NoField, 0)
       ELSE IF Placement(OuterStruct, St) = "inherited"
            THEN LET OuterClass == RedirectTarget(OuterStruct, St)
                     r == RegisterField(RegisterReflectedType(s1, OuterClass),
                                        OuterClass, FieldName, QueryClass)
                 IN Result(r.s, r.ret, r.hops + 1)
       ELSE CreateField(s1, d, FieldName, QueryClass, Property, Function)

\* a FindField that registers the name when it is not cached
FindField_Registers(s, d, FieldName) == RegisterField(s, d, FieldName, d)

FindField(s, d, FieldName) ==
    LET s1 == Load(s, d)
    IN IF s1.halted THEN Result(s1, NoField, 0)
       ELSE IF FieldName \in DOMAIN s1.Fields[d]
            THEN Result(s1, s1.Fields[d][FieldName], 0)
            ELSE Result(s1, NoField, 0)

\* a chain that lists the descriptor after its ancestors
GetInheritanceChain_SelfLast(s, d) == s.SuperClasses[d] \o <<d>>

GetInheritanceChain(s, d) == <<d>> \o s.SuperClasses[d]

(***************************************************************************)
(* The state machine                                                       *)
(***************************************************************************)
\* the names the scripting side asks for, per world
ClassNames == {"Tag", "Tick", "Nope"}

StructNames == {"Health", HealthProp, "Mana", "Ab"}

IfaceNames == {"Use", "Open", "Nope"}

\* a two-level chain Actor -> Object, used with the reference counts
RefWorld == {"tObject", "tActor"}

RefNames == {"Tag", "Tick"}

\* the class chain together with a native struct
MixedWorld == {"tObject", "tActor", "tHero", "tVector"}

MixedNames == {"Tick", HealthProp}

FlatNames == {"Id", "Count", "Owner", "Use", "Nope"}

\* the record of a call: its arguments, what it returned (ret, chain), the
\* delegations it made (hops), whether it repeats the call before it (again),
\* the names whose entries the UnLoad just before it, or itself, released
\* (stale), and the descriptors it bound to a type (loaded, set by Commit)
Call(op, d, n, q, ret, hops, chain) ==
    [op |-> op, desc |-> d, name |-> n, query |-> q, ret |-> ret,
     hops |-> hops, chain |-> chain,
     again |-> (last.op = op /\ last.desc = d /\ last.name = n
                /\ last.query = q),
     stale |-> IF op = "UnLoad" THEN DOMAIN Fields[d]
               ELSE IF last.op = "UnLoad" /\ last.desc = d THEN last.stale
               ELSE {},
     loaded |-> {}]

\* the program moves to state s; when s is halted the call did not return
Commit(s, call) ==
    /\ registered' = s.registered
    /\ ClassName' = s.ClassName
    /\ Struct' = s.Struct
    /\ SuperClasses' = s.SuperClasses
    /\ Fields' = s.Fields
    /\ Properties' = s.Properties
    /\ Functions' = s.Functions
    /\ RefCount' = s.RefCount
    /\ avail' = s.avail
    /\ halted' = s.halted
    /\ last' = [call EXCEPT !.loaded =
                     {x \in Types : Struct[x] = NULL /\ s.Struct[x] # NULL}]

Init ==
    /\ registered = {}
    /\ ClassName = [t \in Types |-> ""]
    /\ Struct = [t \in Types |-> NULL]
    /\ SuperClasses = [t \in Types |-> <<>>]
    /\ Fields = [t \in Types |-> EmptyFields]
    /\ Properties = [t \in Types |-> <<>>]
    /\ Functions = [t \in Types |-> <<>>]
    /\ RefCount = [t \in Types |-> 0]
    /\ avail = [t \in Types |-> "resident"]
    /\ halted = FALSE
    /\ last = [op |-> "none", desc |-> NULL, name |-> "", query |-> NULL,
               ret |-> NoField, hops |-> 0, chain |-> <<>>, again |-> FALSE,
               stale |-> {}, loaded |-> {}]

\* the scripting side references a type for the first time
DoRegisterType(t) ==
    /\ ~halted
    /\ avail[t] = "resident"
    /\ Commit(RegisterReflectedType(Cur, t),
              Call("RegisterReflectedType", t, "", NULL, NoField, 0, <<>>))

DoLoad(d) ==
    /\ ~halted
    /\ d \in registered
    /\ Commit(Load(Cur, d), Call("Load", d, "", NULL, NoField, 0, <<>>))

DoUnLoad(d) ==
    /\ ~halted
    /\ d \in registered
    /\ Commit(UnLoad(Cur, d), Call("UnLoad", d, "", NULL, NoField, 0, <<>>))

DoFindField(d, n) ==
    /\ ~halted
    /\ d \in registered
    /\ LET r == FindField(Cur, d, n)
       IN Commit(r.s, Call("FindField", d, n, NULL, r.ret, r.hops, <<>>))

\* the lookup started at the descriptor itself or at one of a derived type
QueryClasses(d) ==
    {d} \cup {x \in registered :
                 \E i \in DOMAIN SuperClasses[x] : SuperClasses[x][i] = d}

DoRegisterField(d, n, q) ==
    /\ ~halted
    /\ d \in registered
    /\ q \in QueryClasses(d)
    /\ LET r == RegisterField(Cur, d, n, q)
       IN Commit(r.s, Call("RegisterField", d, n, q, r.ret, r.hops, <<>>))

DoGetInheritanceChain(d) ==
    /\ ~halted
    /\ d \in registered
    /\ Commit(Cur, Call("GetInheritanceChain", d, "", NULL, NoField, 0,
                        GetInheritanceChain(Cur, d)))

AddRef(d) ==
    /\ ~halted
    /\ d \in registered
    /\ RefCount[d] < MaxRef
    /\ Commit([Cur EXCEPT !.RefCount[d] = @ + 1],
              Call("AddRef", d, "", NULL, NoField, 0, <<>>))

\* a SubRef that stops at zero
SubRef_Clamped(d) ==
    /\ ~halted
    /\ d \in registered
    /\ RefCount[d] > -MaxRef
    /\ Commit([Cur EXCEPT !.RefCount[d] = IF @ > 0 THEN @ - 1 ELSE @],
              Call("SubRef", d, "", NULL, NoField, 0, <<>>))

SubRef(d) ==
    /\ ~halted
    /\ d \in registered
    /\ RefCount[d] > -MaxRef
    /\ Commit([Cur EXCEPT !.RefCount[d] = @ - 1],
              Call("SubRef", d, "", NULL, NoField, 0, <<>>))

\* the host drops a script-defined type object from memory (hot reload,
\* garbage collection) once no descriptor is bound to it
HostEvict(t) ==
    /\ ~halted
    /\ ~IsNative(t)
    /\ avail[t] = "resident"
    /\ \A d \in registered : Struct[d] # t
    /\ avail' = [avail EXCEPT ![t] = "stored"]
    /\ UNCHANGED <<registered, ClassName, Struct, SuperClasses, Fields,
                   Properties, Functions, RefCount, halted, last>>

\* the asset of an evicted type is removed from storage
HostDelete(t) ==
    /\ ~halted
    /\ avail[t] = "stored"
    /\ avail' = [avail EXCEPT ![t] = "gone"]
    /\ UNCHANGED <<registered, ClassName, Struct, SuperClasses, Fields,
                   Properties, Functions, RefCount, halted, last>>

\* the class chain
Next ==
    \/ \E t \in ClassWorld : DoRegisterType(t)
    \/ \E d \in ClassWorld : DoLoad(d)
    \/ \E d \in ClassWorld : DoUnLoad(d)
    \/ \E d \in ClassWorld, n \in ClassNames : DoFindField(d, n)
    \/ \E d \in ClassWorld, n \in ClassNames, q \in ClassWorld :
           DoRegisterField(d, n, q)
    \/ \E d \in ClassWorld : DoGetInheritanceChain(d)
    \/ \E t \in ClassWorld : HostEvict(t)
    \/ \E t \in ClassWorld : HostDelete(t)

Spec == Init /\ [][Next]_vars

\* the script structs
NextStruct ==
    \/ \E t \in StructWorld : DoRegisterType(t)
    \/ \E d \in StructWorld : DoLoad(d)
    \/ \E d \in StructWorld : DoUnLoad(d)
    \/ \E d \in StructWorld, n \in StructNames : DoFindField(d, n)
    \/ \E d \in StructWorld, n \in StructNames, q \in StructWorld :
           DoRegisterField(d, n, q)
    \/ \E d \in StructWorld : DoGetInheritanceChain(d)
    \/ \E t \in StructWorld : HostEvict(t)
    \/ \E t \in StructWorld : HostDelete(t)

SpecStruct == Init /\ [][NextStruct]_vars

\* a single class without ancestors, with its reference count
NextFlat ==
    \/ \E t \in FlatWorld : DoRegisterType(t)
    \/ \E d \in FlatWorld : DoLoad(d)
    \/ \E d \in FlatWorld : DoUnLoad(d)
    \/ \E d \in FlatWorld, n \in FlatNames : DoFindField(d, n)
    \/ \E d \in FlatWorld, n \in FlatNames, q \in FlatWorld :
           DoRegisterField(d, n, q)
    \/ \E d \in FlatWorld : DoGetInheritanceChain(d)
    \/ \E d \in FlatWorld : AddRef(d)
    \/ \E d \in FlatWorld : SubRef(d)

SpecFlat == Init /\ [][NextFlat]_vars

\* a class and the interface it implements
NextIface ==
    \/ \E t \in IfaceWorld : DoRegisterType(t)
    \/ \E d \in IfaceWorld : DoLoad(d)
    \/ \E d \in IfaceWorld : DoUnLoad(d)
    \/ \E d \in IfaceWorld, n \in IfaceNames : DoFindField(d, n)
    \/ \E d \in IfaceWorld, n \in IfaceNames, q \in IfaceWorld :
           DoRegisterField(d, n, q)
    \/ \E d \in IfaceWorld : DoGetInheritanceChain(d)

SpecIface == Init /\ [][NextIface]_vars

\* a two-level chain with every operation, reference counting included
NextRef ==
    \/ \E t \in RefWorld : DoRegisterType(t)
    \/ \E d \in RefWorld : DoLoad(d)
    \/ \E d \in RefWorld : DoUnLoad(d)
    \/ \E d \in RefWorld, n \in RefNames : DoFindField(d, n)
    \/ \E d \in RefWorld, n \in RefNames, q \in RefWorld :
           DoRegisterField(d, n, q)
    \/ \E d \in RefWorld : DoGetInheritanceChain(d)
    \/ \E d \in RefWorld : AddRef(d)
    \/ \E d \in RefWorld : SubRef(d)

SpecRef == Init /\ [][NextRef]_vars

\* classes and a script struct side by side
NextMixed ==
    \/ \E t \in MixedWorld : DoRegisterType(t)
    \/ \E d \in MixedWorld : DoLoad(d)
    \/ \E d \in MixedWorld : DoUnLoad(d)
    \/ \E d \in MixedWorld, n \in MixedNames : DoFindField(d, n)
    \/ \E d \in MixedWorld, n \in MixedNames, q \in MixedWorld :
           DoRegisterField(d, n, q)
    \/ \E d \in MixedWorld : DoGetInheritanceChain(d)

SpecMixed == Init /\ [][NextMixed]_vars

(***************************************************************************)
(* Properties                                                              *)
(***************************************************************************)
\* the host member a field descriptor of descriptor d refers to
MemberOf(d, fd) ==
    IF fd.FieldIndex > 0 /\ fd.FieldIndex <= Len(Properties[d])
    THEN Properties[d][fd.FieldIndex].Property
    ELSE IF fd.FieldIndex < 0 /\ -fd.FieldIndex <= Len(Functions[d])
         THEN Functions[d][-fd.FieldIndex].Function
         ELSE NoMember

\* type t itself declares a property or a function of that name
DirectlyDeclares(t, n) ==
    \/ \E i \in DOMAIN DirectProperties(t) : DirectProperties(t)[i].name = n
    \/ n \in DirectFunctions(t)

RECURSIVE Lineage(_)
\* the types whose members type t has: itself, its interfaces, its ancestors
Lineage(t) ==
    IF t = NULL THEN {}
    ELSE {t} \cup {Interfaces(t)[i] : i \in DOMAIN Interfaces(t)}
             \cup Lineage(GetInheritanceSuper(t))

\* a call of that operation has returned
Returned(op) == ~halted /\ last.op = op

\* C1: every entry of X.Fields has X as its OuterClass and refers to a member
\* that X's own underlying type declares itself; a RegisterField that returns
\* a descriptor returns the entry stored under the name in the Fields of the
\* declaring descriptor, whose type is the queried descriptor's type or one
\* it inherits from, and when that is another descriptor the queried
\* descriptor's Fields do not hold the name.
C1_DeclaringType ==
    /\ \A d \in Types : \A n \in DOMAIN Fields[d] :
          /\ Fields[d][n].OuterClass = d
          /\ MemberOf(d, Fields[d][n]) # NoMember
          /\ MemberOf(d, Fields[d][n]).outer = Struct[d]
          /\ DirectlyDeclares(Struct[d], MemberOf(d, Fields[d][n]).name)
    /\ (Returned("RegisterField") /\ last.ret # NoField) =>
          LET A == last.ret.OuterClass
          IN /\ A \in registered
             /\ Struct[A] \in Lineage(Struct[last.desc])
             /\ last.name \in DOMAIN Fields[A]
             /\ Fields[A][last.name] = last.ret
             /\ DirectlyDeclares(Struct[A], MemberOf(A, last.ret).name)
             /\ A # last.desc => last.name \notin DOMAIN Fields[last.desc]

C1_Witness ==
    /\ Returned("RegisterField")
    /\ last.desc = "tHero" /\ last.query = "tHero" /\ last.name = "Tag"
    /\ last.ret.OuterClass = "tObject"
    /\ "Tag" \in DOMAIN Fields["tObject"]
    /\ "Tag" \notin DOMAIN Fields["tHero"]

\* C2: a RegisterField call that repeats the call just before it (same
\* descriptor, name and query class) returns without halting, returns the
\* same field descriptor, and leaves Fields, Properties and Functions of
\* every descriptor as they were.
C2_Idempotent ==
    [][(Returned("RegisterField")
        /\ DoRegisterField(last.desc, last.name, last.query))
       => /\ ~halted'
          /\ last'.ret = last.ret
          /\ Fields' = Fields
          /\ Properties' = Properties
          /\ Functions' = Functions]_vars

C2_Witness ==
    /\ Returned("RegisterField")
    /\ last.again
    /\ last.desc = "tHero" /\ last.name = "Tick"
    /\ last.hops = 1
    /\ last.ret # NoField
    /\ last.ret.OuterClass = "tActor"

\* C3: no two entries of a descriptor's Properties are built from the same
\* host property, and no two entries of its Functions from the same host
\* function.
C3_ExactlyOnce ==
    \A d \in Types :
       /\ \A i, j \in DOMAIN Properties[d] :
             i # j => Properties[d][i].Property # Properties[d][j].Property
       /\ \A i, j \in DOMAIN Functions[d] :
             i # j => Functions[d][i].Function # Functions[d][j].Function

\* C4: every Fields entry has a non-zero index; a positive index i names
\* entry i of Properties (1-based), a negative index i entry -i of Functions,
\* and that entry is the descriptor built for the member of that name; the
\* entries of Fields and the entries of Properties and Functions correspond
\* one to one, so |Fields| = |Properties| + |Functions|.
C4_IndexEncoding ==
    \A d \in Types :
       /\ \A n \in DOMAIN Fields[d] :
             LET i == Fields[d][n].FieldIndex
             IN /\ i # 0
                /\ i > 0 => /\ i <= Len(Properties[d])
                            /\ Properties[d][i].Property
                                 = [outer |-> Struct[d], name |-> n]
                /\ i < 0 => /\ -i <= Len(Functions[d])
                            /\ Functions[d][-i].Function
                                 = [outer |-> Struct[d], name |-> n]
       /\ \A n, m \in DOMAIN Fields[d] :
             n # m => Fields[d][n].FieldIndex # Fields[d][m].FieldIndex
       /\ \A i \in DOMAIN Properties[d] :
             \E n \in DOMAIN Fields[d] : Fields[d][n].FieldIndex = i
       /\ \A i \in DOMAIN Functions[d] :
             \E n \in DOMAIN Fields[d] : Fields[d][n].FieldIndex = -i
       /\ Cardinality(DOMAIN Fields[d])
            = Len(Properties[d]) + Len(Functions[d])

C4_Witness ==
    /\ Cardinality(DOMAIN Fields["tItem"]) = 4
    /\ Len(Properties["tItem"]) = 3
    /\ Len(Functions["tItem"]) = 1
    /\ Fields["tItem"]["Use"].FieldIndex = -1
    /\ Fields["tItem"]["Owner"].FieldIndex = 1
    /\ Fields["tItem"]["Id"].FieldIndex = 3

\* C5: when Load directly follows an UnLoad of the same descriptor that
\* released entries, none of the released names is in Fields, Properties
\* and Functions are empty, FindField returns absent for each released name,
\* and RegisterField of such a name creates a new entry on the descriptor.
C5_RoundTrip ==
    (Returned("Load") /\ last.stale # {}) =>
       LET d == last.desc
       IN /\ Properties[d] = <<>>
          /\ Functions[d] = <<>>
          /\ \A n \in last.stale :
                /\ n \notin DOMAIN Fields[d]
                /\ FindField(Cur, d, n).ret = NoField
                /\ LET r == RegisterField(Cur, d, n, d)
                   IN /\ r.ret # NoField
                      /\ r.ret.OuterClass = d
                      /\ n \in DOMAIN r.s.Fields[d]
                      /\ Len(r.s.Properties[d]) + Len(r.s.Functions[d]) = 1

C5_Witness ==
    /\ Returned("Load")
    /\ last.desc = "tObject"
    /\ last.stale = {"Tag", "Tick"}
    /\ Struct["tObject"] = "tObject"

\* C6: GetInheritanceChain returns the descriptor followed by its
\* SuperClasses; each element after the first is the super type of the one
\* before it and the last element has no super type, so for Hero -> Actor ->
\* Object the chain of Hero is [Hero, Actor, Object].
C6_ChainOrder ==
    Returned("GetInheritanceChain") =>
       LET d == last.desc
           ch == last.chain
       IN /\ ch = <<d>> \o SuperClasses[d]
          /\ Len(ch) >= 1
          /\ ch[1] = d
          /\ \A i \in 1..(Len(ch) - 1) : ch[i + 1] = GetInheritanceSuper(ch[i])
          /\ GetInheritanceSuper(ch[Len(ch)]) = NULL
          /\ d = "tHero" => ch = <<"tHero", "tActor", "tObject">>

C6_Witness ==
    /\ Returned("GetInheritanceChain")
    /\ last.desc = "tHero"
    /\ last.chain = <<"tHero", "tActor", "tObject">>

\* C7: a FindField call leaves Fields, Properties and Functions of every
\* descriptor unchanged and, when it returns, returns the entry its own
\* descriptor held under the name, or absent when it held none.
C7_FindFieldLookupOnly ==
    [][(last'.op = "FindField" /\ DoFindField(last'.desc, last'.name))
       => /\ Fields' = Fields
          /\ Properties' = Properties
          /\ Functions' = Functions
          /\ ~halted' =>
                last'.ret = IF last'.name \in DOMAIN Fields[last'.desc]
                            THEN Fields[last'.desc][last'.name]
                            ELSE NoField]_vars

C7_Witness ==
    /\ Returned("FindField")
    /\ last.desc = "tHero" /\ last.name = "Tag"
    /\ last.ret = NoField
    /\ "Tag" \in DOMAIN Fields["tObject"]
    /\ Fields["tObject"]["Tag"].QueryClass = "tHero"

\* the recovered name of a property name, as specified
RecoveredName(name) ==
    IF Len(name) > 35
    THEN LET cut == SubSeq(name, 1, Len(name) - 33)
             us == {i \in 1..Len(cut) : SubSeq(cut, i, i) = "_"}
         IN IF us = {} THEN cut
            ELSE SubSeq(cut, 1, (CHOOSE i \in us : \A j \in us : j <= i) - 1)
    ELSE name

\* the direct, non-deprecated properties of t whose recovered name is n
RecoveredBy(t, n) ==
    {i \in DOMAIN DirectProperties(t) :
        /\ ~DirectProperties(t)[i].deprecated
        /\ RecoveredName(DirectProperties(t)[i].name) = n}

\* C8: on a non-native script struct, a RegisterField whose name is no
\* property by its literal name returns the descriptor of the first direct,
\* non-deprecated property whose recovered name equals the name, or absent
\* when there is none; "Health" resolves to
\* Health_01234567890123456789012345678901_3 and "Ab" to nothing.
C8_NameRecovery ==
    (/\ Returned("RegisterField")
     /\ bIsScriptStruct(last.desc)
     /\ ~IsNative(Struct[last.desc])
     /\ FindPropertyByName(Struct[last.desc], last.name) = NoMember) =>
       LET d == last.desc
           St == Struct[d]
           c == RecoveredBy(St, last.name)
           first == CHOOSE i \in c : \A j \in c : i <= j
       IN /\ c = {} => last.ret = NoField
          /\ c # {} => /\ last.ret # NoField
                       /\ MemberOf(d, last.ret)
                            = [outer |-> St,
                               name |-> DirectProperties(St)[first].name]
          /\ last.name = "Health" =>
                MemberOf(d, last.ret).name
                   = "Health_01234567890123456789012345678901_3"
          /\ last.name = "Ab" => last.ret = NoField

C8_Witness ==
    /\ Returned("RegisterField")
    /\ last.desc = "tStat" /\ last.name = "Health"
    /\ last.ret # NoField
    /\ MemberOf("tStat", last.ret).name
          = "Health_01234567890123456789012345678901_3"

\* the name is no property and no function of live type t and the struct
\* fallback does not recover it
NotAMember(t, n) ==
    /\ FindPropertyByName(t, n) = NoMember
    /\ IsClassType(t) => FindFunctionByName(t, n) = NoMember
    /\ (IsScriptStructType(t) /\ ~IsNative(t)) => RecoveredBy(t, n) = {}

\* C9: a RegisterField for a name that is no member of the descriptor's live
\* type returns absent without halting and leaves Fields, Properties and
\* Functions of every descriptor unchanged.
C9_NotFound ==
    [][(/\ last'.op = "RegisterField"
        /\ DoRegisterField(last'.desc, last'.name, last'.query)
        /\ Struct'[last'.desc] # NULL
        /\ NotAMember(Struct'[last'.desc], last'.name))
       => /\ ~halted'
          /\ last'.ret = NoField
          /\ Fields' = Fields
          /\ Properties' = Properties
          /\ Functions' = Functions]_vars

C9_Witness ==
    /\ Returned("RegisterField")
    /\ last.desc = "tVector" /\ last.name = "Health"
    /\ last.ret = NoField

\* no type object of the name Load derives is in memory or in storage
Unresolvable(d) ==
    \A t \in Types : ObjectName(t) = LoadName(ClassName[d]) => avail[t] = "gone"

\* C10: after Load, FindField or RegisterField has returned, the
\* descriptor's Struct is not null; the program halts only in such a call,
\* on a descriptor whose Struct is null and whose name resolves to no type.
C10_LoadFatal ==
    /\ (~halted /\ last.op \in {"Load", "FindField", "RegisterField"}) =>
          /\ Struct[last.desc] # NULL
          /\ avail[Struct[last.desc]] = "resident"
    /\ halted =>
          /\ last.op \in {"Load", "FindField", "RegisterField"}
          /\ Struct[last.desc] = NULL
          /\ Unresolvable(last.desc)

C10_Witness ==
    /\ halted
    /\ last.op = "Load"
    /\ last.desc = "tHero"
    /\ Struct["tHero"] = NULL
    /\ avail["tHero"] = "gone"

\* C11: no step changes the SuperClasses of a descriptor that exists.
C11_SuperClassesFrozen ==
    [][\A d \in registered : SuperClasses'[d] = SuperClasses[d]]_vars

C11_Witness ==
    /\ Returned("Load")
    /\ last.desc = "tActor"
    /\ last.loaded = {"tActor"}
    /\ last.stale # {}
    /\ RefCount["tActor"] # 0
    /\ SuperClasses["tActor"] = <<"tObject">>

\* sequence a is an initial part of sequence b
IsPrefix(a, b) == Len(a) <= Len(b) /\ \A i \in DOMAIN a : b[i] = a[i]

\* C12: in every step that is not an UnLoad of descriptor d, every entry of
\* d's Fields stays under its name with the same field descriptor and index,
\* and Properties and Functions of d keep every existing position.
C12_StableWhileLoaded ==
    [][\A d \in Types :
          ~(last'.op = "UnLoad" /\ last'.desc = d) =>
             /\ \A n \in DOMAIN Fields[d] :
                   /\ n \in DOMAIN Fields'[d]
                   /\ Fields'[d][n] = Fields[d][n]
             /\ IsPrefix(Properties[d], Properties'[d])
             /\ IsPrefix(Functions[d], Functions'[d])]_vars

C12_Witness ==
    /\ Returned("RegisterField")
    /\ last.desc = "tItem"
    /\ last.ret.FieldIndex = 3
    /\ Fields["tItem"]["Id"].FieldIndex = 1
    /\ Properties["tItem"][1].Property.name = "Id"
    /\ Len(Functions["tItem"]) = 1

\* the program state without the call record
progvars ==
    <<registered, ClassName, Struct, SuperClasses, Fields, Properties,
      Functions, RefCount, avail, halted>>

\* a descriptor without a type has no field, property or function entries
UnloadedIsEmpty ==
    \A d \in Types :
       Struct[d] = NULL =>
          /\ DOMAIN Fields[d] = {}
          /\ Properties[d] = <<>>
          /\ Functions[d] = <<>>

\* C13: UnLoad leaves its descriptor without type handle and without
\* entries and changes nothing when the descriptor was unloaded already;
\* Load on a loaded descriptor changes nothing; after every step a
\* descriptor whose type handle is null has empty Fields, Properties and
\* Functions.
C13_UnloadedEmpty ==
    [][/\ UnloadedIsEmpty'
       /\ (last'.op = "UnLoad" /\ DoUnLoad(last'.desc)) =>
             /\ Struct'[last'.desc] = NULL
             /\ Struct[last'.desc] = NULL => UNCHANGED progvars
       /\ (last'.op = "Load" /\ DoLoad(last'.desc)
           /\ Struct[last'.desc] # NULL) => UNCHANGED progvars]_vars

C13_Witness ==
    /\ Returned("UnLoad")
    /\ last.desc = "tObject"
    /\ last.stale = {"Tag", "Tick"}
    /\ Struct["tObject"] = NULL
    /\ DOMAIN Fields["tObject"] = {}
    /\ Properties["tObject"] = <<>>

\* C14: a RegisterField call that returns a field descriptor either returns
\* the entry its declaring descriptor held under the name before the call,
\* QueryClass included, or creates there an entry whose QueryClass is the
\* query class the call was given and whose OuterClass is that descriptor.
C14_QueryClassFixed ==
    [][(/\ last'.op = "RegisterField"
        /\ DoRegisterField(last'.desc, last'.name, last'.query)
        /\ ~halted'
        /\ last'.ret # NoField) =>
          LET A == last'.ret.OuterClass
              m == last'.name
          IN /\ m \in DOMAIN Fields'[A]
             /\ Fields'[A][m] = last'.ret
             /\ IF m \in DOMAIN Fields[A]
                THEN /\ last'.ret = Fields[A][m]
                     /\ last'.ret.QueryClass = Fields[A][m].QueryClass
                ELSE /\ last'.ret.QueryClass = last'.query
                     /\ last'.ret.OuterClass = A]_vars

C14_Witness ==
    /\ Returned("RegisterField")
    /\ last.desc = "tActor"
    /\ last.query = "tActor"
    /\ last.name = "Tag"
    /\ last.hops = 1
    /\ last.ret.QueryClass = "tHero"
    /\ last.ret.OuterClass = "tObject"

RECURSIVE Ancestry(_)
\* type t and its ancestors
Ancestry(t) ==
    IF t = NULL THEN {} ELSE {t} \cup Ancestry(GetInheritanceSuper(t))

\* type t has, of its own or inherited, a property of that name
HasProperty(t, n) ==
    \E a \in Ancestry(t) :
       \E i \in DOMAIN DirectProperties(a) : DirectProperties(a)[i].name = n

\* type t has, of its own, inherited or from an interface, a function of
\* that name
HasFunction(t, n) == \E a \in Lineage(t) : n \in DirectFunctions(a)

\* C15: RegisterField on a class descriptor for a name that is both a
\* property and a function of the class returns an entry with a positive
\* index that refers to the property; a script-struct descriptor has no
\* Functions entry and no entry with a negative index, and RegisterField on
\* it never returns a negative index.
C15_PropertyFirst ==
    /\ (/\ Returned("RegisterField")
        /\ bIsClass(last.desc)
        /\ HasProperty(Struct[last.desc], last.name)
        /\ HasFunction(Struct[last.desc], last.name)) =>
           /\ last.ret # NoField
           /\ last.ret.FieldIndex > 0
           /\ MemberOf(last.ret.OuterClass, last.ret).name = last.name
           /\ last.ret.FieldIndex <= Len(Properties[last.ret.OuterClass])
    /\ \A d \in Types :
          IsScriptStructType(d) =>
             /\ Functions[d] = <<>>
             /\ \A n \in DOMAIN Fields[d] : Fields[d][n].FieldIndex > 0
    /\ (/\ Returned("RegisterField")
        /\ IsScriptStructType(last.desc)
        /\ last.ret # NoField) => last.ret.FieldIndex > 0

C15_Witness ==
    /\ Returned("RegisterField")
    /\ last.desc = "tHero"
    /\ last.name = "Tick"
    /\ last.ret.FieldIndex = 1
    /\ last.ret.OuterClass = "tActor"
    /\ "Tick" \in DOMAIN Fields["tObject"]
    /\ Fields["tObject"]["Tick"].FieldIndex = -1
    /\ Len(Properties["tVector"]) = 1

\* C16: a RegisterField call delegates to another descriptor at most once;
\* a call that delegated and returned got the entry stored under the name
\* on a descriptor other than the one called, which is loaded.
C16_OneDelegation ==
    last.op = "RegisterField" =>
       /\ last.hops <= 1
       /\ (~halted /\ last.hops = 1) =>
             /\ last.ret # NoField
             /\ last.ret.OuterClass # last.desc
             /\ Struct[last.ret.OuterClass] # NULL
             /\ last.name \in DOMAIN Fields[last.ret.OuterClass]
             /\ Fields[last.ret.OuterClass][last.name] = last.ret

C16_Witness ==
    /\ Returned("RegisterField")
    /\ last.desc = "tHero"
    /\ last.hops = 1
    /\ last.ret.OuterClass = "tObject"
    /\ "tObject" \in last.loaded
    /\ SuperClasses["tHero"] = <<"tActor", "tObject">>

\* the registry name without its first character when that is U, A or F
StripPrefix(name) ==
    IF Len(name) > 0 /\ SubSeq(name, 1, 1) \in {"U", "A", "F"}
    THEN SubSeq(name, 2, Len(name))
    ELSE name

\* the types of that name in memory / in storage
ResidentNamed(nm) ==
    {t \in Types : avail[t] = "resident" /\ ObjectName(t) = nm}

StoredNamed(nm) ==
    {t \in Types : avail[t] = "stored" /\ ObjectName(t) = nm}

\* C17: Load on an unloaded descriptor binds the resident type whose name is
\* the registry name without a leading U, A or F; with no such resident type
\* it binds the type of that name read from storage; with neither it does
\* not return.  A Load that returns leaves the descriptor bound to a type
\* carrying the derived name.
C17_LoadName ==
    [][(/\ last'.op = "Load"
        /\ DoLoad(last'.desc)
        /\ Struct[last'.desc] = NULL) =>
          LET d == last'.desc
              nm == StripPrefix(ClassName[d])
          IN /\ IF ResidentNamed(nm) # {}
                THEN /\ ~halted'
                     /\ Struct'[d] \in ResidentNamed(nm)
                     /\ avail' = avail
                ELSE IF StoredNamed(nm) # {}
                THEN /\ ~halted'
                     /\ Struct'[d] \in StoredNamed(nm)
                     /\ avail'[Struct'[d]] = "resident"
                ELSE /\ halted'
                     /\ Struct'[d] = NULL
             /\ ~halted' => ObjectName(Struct'[d]) = nm]_vars

C17_Witness ==
    /\ Returned("Load")
    /\ last.desc = "tActor"
    /\ last.loaded = {"tActor"}
    /\ ClassName["tActor"] = "AActor"
    /\ ObjectName(Struct["tActor"]) = "Actor"

\* C18: AddRef adds one to RefCount of its descriptor and SubRef takes one
\* off, below zero too; neither changes anything else of any descriptor; no
\* other operation changes the RefCount of an existing descriptor, and a new
\* descriptor starts at 0.
C18_PlainCounter ==
    [][/\ (last'.op = "AddRef" /\ AddRef(last'.desc)) =>
             /\ RefCount' = [RefCount EXCEPT ![last'.desc] = @ + 1]
             /\ UNCHANGED <<registered, ClassName, Struct, SuperClasses,
                            Fields, Properties, Functions, avail, halted>>
       /\ (last'.op = "SubRef" /\ SubRef(last'.desc)) =>
             /\ RefCount' = [RefCount EXCEPT ![last'.desc] = @ - 1]
             /\ UNCHANGED <<registered, ClassName, Struct, SuperClasses,
                            Fields, Properties, Functions, avail, halted>>
       /\ \A d \in registered :
             ~(last'.op \in {"AddRef", "SubRef"} /\ last'.desc = d) =>
                RefCount'[d] = RefCount[d]
       /\ \A d \in registered' \ registered : RefCount'[d] = 0]_vars

C18_Witness ==
    /\ Returned("SubRef")
    /\ RefCount[last.desc] = -1
    /\ Struct[last.desc] # NULL
    /\ DOMAIN Fields[last.desc] # {}
    /\ SuperClasses["tActor"] = <<"tObject">>

\* type t has a function of that name whose outer object is not a struct,
\* and no property or function of that name that a struct declares
OnlyDetached(t, n) ==
    /\ t # NULL
    /\ n \in DetachedFunctions(t)
    /\ ~HasProperty(t, n)
    /\ n \notin DirectFunctions(t)

\* C19: a RegisterField call that finds only a member whose outer object is
\* not a struct returns no field descriptor and leaves Fields, Properties and
\* Functions of every descriptor as they were.
C19_UnresolvableOuter ==
    [][(/\ last'.op = "RegisterField"
        /\ DoRegisterField(last'.desc, last'.name, last'.query)
        /\ ~halted'
        /\ OnlyDetached(Struct'[last'.desc], last'.name)) =>
          /\ last'.ret = NoField
          /\ UNCHANGED <<Fields, Properties, Functions>>]_vars

C19_Witness ==
    /\ Returned("RegisterField")
    /\ last.desc = "tDoor"
    /\ last.name = "Open"
    /\ last.ret = NoField
    /\ Struct["tDoor"] = "tDoor"
    /\ "Open" \notin DOMAIN Fields["tDoor"]

RECURSIVE AncestorSeq(_)
\* the ancestors of type t, nearest first
AncestorSeq(t) ==
    IF GetInheritanceSuper(t) = NULL THEN <<>>
    ELSE <<GetInheritanceSuper(t)>> \o AncestorSeq(GetInheritanceSuper(t))

\* the descriptor exists together with the descriptors of the interfaces its
\* class implements and of all its ancestors, and its SuperClasses are the
\* ancestors only
GraphRegistered(d) ==
    /\ IsClassType(d) =>
          \A i \in DOMAIN Interfaces(d) : Interfaces(d)[i] \in registered
    /\ \A a \in Ancestry(d) : a \in registered
    /\ SuperClasses[d] = AncestorSeq(d)
    /\ \A i \in DOMAIN SuperClasses[d] :
          \A j \in DOMAIN Interfaces(d) : SuperClasses[d][i] # Interfaces(d)[j]

\* C20: after the first reference to a type the registry holds a descriptor
\* for the type, for every interface its class implements and for every
\* ancestor; SuperClasses lists the ancestors, nearest first, and no
\* interface; descriptors that existed before are the same descriptors.
C20_GraphPreRegistered ==
    [][(last'.op = "RegisterReflectedType" /\ DoRegisterType(last'.desc)) =>
          /\ last'.desc \in registered'
          /\ \A d \in registered' : GraphRegistered(d)'
          /\ \A d \in registered :
                /\ d \in registered'
                /\ Fields'[d] = Fields[d]
                /\ Struct'[d] = Struct[d]
                /\ SuperClasses'[d] = SuperClasses[d]]_vars

C20_Witness ==
    /\ Returned("RegisterReflectedType")
    /\ last.desc = "tDoor"
    /\ registered = {"tDoor", "tUsable", "tObject"}
    /\ SuperClasses["tDoor"] = <<"tObject">>
    /\ SuperClasses["tUsable"] = <<>>

====
